---- MODULE Spec2Model ----
(***************************************************************************)
(* A model of src/app.py: file_organizer, the configuration loader and the *)
(* filesystem operations it calls (Path.is_file, Path.suffix, os.makedirs, *)
(* shutil.move), run one or more times on one target directory.            *)
(*                                                                         *)
(* Names are sequences of one-character strings, so that Path.suffix is    *)
(* computed from the name as pathlib computes it.                          *)
(***************************************************************************)
EXTENDS Integers, Sequences, FiniteSets, TLC

VARIABLES
    fs,       \* the target directory: entry name -> node
    cfg,      \* the configuration file named by the config argument
    pc,       \* "idle" | "scan" | "done" | "failed": where file_organizer is
    dry,      \* dry_run of the current call
    groups,   \* extension_groups of the current call
    snap,     \* list(directory.iterdir()) of the current call
    i,        \* position of the for loop in snap
    out,      \* the lines printed by the current call
    err,      \* the exception that ended the current call, "" when none
    acts,     \* history: one record per file the current call has acted on
    start,    \* history: fs when the current call began
    prev,     \* history: summary of the previous call
    runs      \* number of calls made so far

vars == <<fs, cfg, pc, dry, groups, snap, i, out, err, acts, start, prev, runs>>

----------------------------------------------------------------------------
(* Bounds *)

MaxEntries == 3    \* entries in the target directory before the first call
MaxRuns == 2       \* calls of file_organizer in one behaviour
LinkDepth == 3     \* symbolic links followed before a lookup gives up

----------------------------------------------------------------------------
(* Names *)

Directory == <<"/", "t">>
Others == <<"O", "t", "h", "e", "r", "s">>
Docs == <<"D", "o", "c", "s">>
Images == <<"I", "m", "a", "g", "e", "s">>
a_pdf == <<"a", ".", "p", "d", "f">>
notes == <<"n", "o", "t", "e", "s">>
z_txt == <<"z", ".", "t", "x", "t">>
dot_pdf == <<".", "p", "d", "f">>
dot_jpg == <<".", "j", "p", "g">>
dot_pdfx == <<".", "p", "d", "f", "x">>
NoName == <<>>
Empty == <<>>

----------------------------------------------------------------------------
(* Filesystem nodes *)

FileNode(id) == [k |-> "file", id |-> id, ch |-> Empty, to |-> <<>>]
DirNode(ch) == [k |-> "dir", id |-> 0, ch |-> ch, to |-> <<>>]
FifoNode == [k |-> "fifo", id |-> 0, ch |-> Empty, to |-> <<>>]
\* a symbolic link whose target is a path relative to the link's directory
LinkNode(to) == [k |-> "link", id |-> 0, ch |-> Empty, to |-> to]
\* a symbolic link whose target is the absolute path of a regular file
\* outside the target directory
XLinkNode == [k |-> "xlink", id |-> 0, ch |-> Empty, to |-> <<>>]

\* d with entry n set to node
Put(d, n, node) == [x \in (DOMAIN d) \cup {n} |-> IF x = n THEN node ELSE d[x]]
\* d without entry n
Del(d, n) == [x \in (DOMAIN d) \ {n} |-> d[x]]

\* os.stat of path (a non-empty sequence of names) looked up in directory d,
\* following symbolic links: "file", "dir", "fifo", or "none" when the path
\* does not resolve
RECURSIVE Stat(_, _, _)
Stat(d, path, fuel) ==
    IF fuel = 0 \/ Head(path) \notin DOMAIN d THEN "none"
    ELSE LET nd == d[Head(path)] IN
         CASE nd.k = "link" -> Stat(d, nd.to \o Tail(path), fuel - 1)
           [] nd.k = "xlink" -> IF Len(path) = 1 THEN "file" ELSE "none"
           [] nd.k = "dir" ->
                IF Len(path) = 1 THEN "dir" ELSE Stat(nd.ch, Tail(path), fuel - 1)
           [] OTHER -> IF Len(path) = 1 THEN nd.k ELSE "none"

\* the name of the top-level directory that top-level name n denotes, through
\* symbolic links to siblings; NoName when n denotes no directory
RECURSIVE RealDir(_, _, _)
RealDir(f, n, fuel) ==
    IF fuel = 0 \/ n \notin DOMAIN f THEN NoName
    ELSE CASE f[n].k = "dir" -> n
           [] f[n].k = "link" /\ Len(f[n].to) = 1 -> RealDir(f, f[n].to[1], fuel - 1)
           [] OTHER -> NoName

\* content.is_file(): true of a regular file and of a symbolic link that
\* resolves to one
IsFile(f, n) == Stat(f, <<n>>, LinkDepth) = "file"

\* os.path.isdir(directory / n)
IsDir(f, n) == Stat(f, <<n>>, LinkDepth) = "dir"

----------------------------------------------------------------------------
(* Path.suffix *)

\* name.rfind('.'), 1-based; 0 when the name holds no dot
RFindDot(name) ==
    LET dots == {k \in 1..Len(name) : name[k] = "."}
    IN  IF dots = {} THEN 0 ELSE CHOOSE k \in dots : \A j \in dots : j <= k

\* the text from the last dot on, unless that dot starts or ends the name
Suffix(name) ==
    LET k == RFindDot(name)
    IN  IF 1 < k /\ k < Len(name) THEN SubSeq(name, k, Len(name)) ELSE <<>>

----------------------------------------------------------------------------
(* The configuration file and json.load *)

\* JSON values: an object is a sequence of <<key, value>> pairs in the order
\* the file declares them (a Python dict keeps that order)
JArr(a) == [t |-> "arr", a |-> a, s |-> <<>>, m |-> <<>>]
JStr(s) == [t |-> "str", a |-> <<>>, s |-> s, m |-> <<>>]
JNum == [t |-> "num", a |-> <<>>, s |-> <<>>, m |-> <<>>]
JObj(m) == [t |-> "obj", a |-> <<>>, s |-> <<>>, m |-> m]
JNone == [t |-> "none", a |-> <<>>, s |-> <<>>, m |-> <<>>]

CfgMissing == [k |-> "missing", v |-> JNone]        \* no such file
CfgBadJson == [k |-> "text", v |-> JNone]           \* a file that is not JSON
CfgArr == [k |-> "json", v |-> JArr(<<dot_pdf>>)]   \* JSON, but a list
CfgGood == [k |-> "json", v |->
    JObj(<< <<Docs, JArr(<<dot_pdf>>)>>, <<Images, JArr(<<dot_jpg>>)>> >>)]
\* ".pdf" in two categories, the empty extension in one
CfgDup == [k |-> "json", v |->
    JObj(<< <<Docs, JArr(<<dot_pdf, <<>> >>)>>, <<Images, JArr(<<dot_jpg, dot_pdf>>)>> >>)]
\* a category whose value is a number
CfgNum == [k |-> "json", v |->
    JObj(<< <<Docs, JArr(<<dot_pdf>>)>>, <<Images, JNum>> >>)]
\* a category whose value is a string, not a list
CfgStr == [k |-> "json", v |-> JObj(<< <<Docs, JStr(dot_pdfx)>> >>)]

Configs == {CfgMissing, CfgBadJson, CfgArr, CfgGood, CfgDup, CfgNum, CfgStr}

\* load_config: open() raises FileNotFoundError, json.load raises
\* JSONDecodeError; any JSON value at all is returned as it is
load_config(c) ==
    CASE c.k = "missing" -> [err |-> "FileNotFoundError", v |-> JNone]
      [] c.k = "text" -> [err |-> "JSONDecodeError", v |-> JNone]
      [] OTHER -> [err |-> "", v |-> c.v]

----------------------------------------------------------------------------
(* content.suffix in exts *)

\* s occurs in t as a substring (Python's str.__contains__)
IsSubstring(s, t) ==
    \E k \in 0..(Len(t) - Len(s)) : SubSeq(t, k + 1, k + Len(s)) = s

\* Faulty variant of InExts: a substring test against each listed extension
\* instead of equality, so the empty suffix matches every non-empty list.
InExtsSubstring(sfx, exts) ==
    CASE exts.t = "arr" ->
           IF \E k \in 1..Len(exts.a) : IsSubstring(sfx, exts.a[k])
           THEN "yes" ELSE "no"
      [] exts.t = "str" -> IF IsSubstring(sfx, exts.s) THEN "yes" ELSE "no"
      [] OTHER -> "TypeError"

\* the `in` test of line 162: "yes", "no", or "TypeError" for a value that
\* is no container
InExts(sfx, exts) ==
    CASE exts.t = "arr" ->
           IF \E k \in 1..Len(exts.a) : exts.a[k] = sfx THEN "yes" ELSE "no"
      [] exts.t = "str" -> IF IsSubstring(sfx, exts.s) THEN "yes" ELSE "no"
      [] OTHER -> "TypeError"

\* Faulty variant of Scan: the loop without its break, so that the last
\* matching category wins and every category is tested.
RECURSIVE ScanLast(_, _, _)
ScanLast(m, k, sfx) ==
    IF k > Len(m) THEN [r |-> "nomatch", cat |-> NoName]
    ELSE LET t == InExts(sfx, m[k][2])
             rest == ScanLast(m, k + 1, sfx) IN
         CASE t = "TypeError" -> [r |-> "TypeError", cat |-> NoName]
           [] rest.r # "nomatch" -> rest
           [] t = "yes" -> [r |-> "match", cat |-> m[k][1]]
           [] OTHER -> rest

\* the loop of lines 160-175 over extension_groups.items(), from position k:
\* the first category whose test succeeds ends the loop (break); a test that
\* raises ends the call
RECURSIVE Scan(_, _, _)
Scan(m, k, sfx) ==
    IF k > Len(m) THEN [r |-> "nomatch", cat |-> NoName]
    ELSE LET t == InExts(sfx, m[k][2]) IN
         CASE t = "yes" -> [r |-> "match", cat |-> m[k][1]]
           [] t = "TypeError" -> [r |-> "TypeError", cat |-> NoName]
           [] OTHER -> Scan(m, k + 1, sfx)

----------------------------------------------------------------------------
(* os.makedirs and shutil.move *)

\* os.makedirs(directory / n, exist_ok=True): creates the directory when the
\* name is free, accepts an existing directory (or a link to one), and raises
\* FileExistsError for any other existing entry
MakeDirs(f, n) ==
    IF n \notin DOMAIN f THEN [fs |-> Put(f, n, DirNode(Empty)), err |-> ""]
    ELSE IF IsDir(f, n) THEN [fs |-> f, err |-> ""]
    ELSE [fs |-> f, err |-> "FileExistsError"]

\* Faulty variant of Move: a copy, which leaves the source where it was.
MoveKeepsSource(f, n, folder) ==
    LET d == RealDir(f, folder, LinkDepth) IN
    IF d = NoName \/ Stat(f[d].ch, <<n>>, LinkDepth) # "none"
    THEN [fs |-> f, err |-> "shutil.Error"]
    ELSE [fs |-> [f EXCEPT ![d].ch = Put(f[d].ch, n, f[n])], err |-> ""]

\* Faulty variant of Move: no test for an existing destination, so an entry
\* of the same name in the folder is replaced.
MoveOverwrite(f, n, folder) ==
    LET d == RealDir(f, folder, LinkDepth) IN
    IF d = NoName THEN [fs |-> f, err |-> "shutil.Error"]
    ELSE [fs |-> Del([f EXCEPT ![d].ch = Put(f[d].ch, n, f[n])], n), err |-> ""]

\* shutil.move(str(content), str(directory / folder)) for top-level entry n.
\* When the destination is a directory the entry goes inside it under its own
\* name, unless os.path.exists(real_dst), which follows symbolic links: then
\* shutil.Error is raised.  os.rename replaces a dangling link of that name.
\* (_samefile(src, dst) cannot hold: src is a file and dst a directory.)
\* When the destination is no directory, os.rename(src, dst) renames the
\* entry to the destination's name.
Move(f, n, folder) ==
    IF IsDir(f, folder)
    THEN LET d == RealDir(f, folder, LinkDepth) IN
         IF d = NoName THEN [fs |-> f, err |-> "shutil.Error"]
         ELSE IF Stat(f[d].ch, <<n>>, LinkDepth) # "none"
         THEN [fs |-> f, err |-> "shutil.Error"]
         ELSE [fs |-> Del([f EXCEPT ![d].ch = Put(f[d].ch, n, f[n])], n),
               err |-> ""]
    ELSE [fs |-> Put(Del(f, n), folder, f[n]), err |-> ""]

----------------------------------------------------------------------------
(* file_organizer *)

\* a printed line: its kind, the file and the category it names, and the
\* destination path it shows (<<Directory, folder>> for directory / folder)
Line(t, n, c, p) == [t |-> t, n |-> n, c |-> c, p |-> p]

\* history record of one file acted on: the folder chosen, whether a category
\* matched, whether directory / folder existed before, and the lines printed
Act(f, n, c, matched, lines) ==
    [n |-> n, c |-> c, matched |-> matched, existed |-> c \in DOMAIN f,
     lines |-> lines]

Result(f, e, lines, as) == [fs |-> f, err |-> e, lines |-> lines, acts |-> as]

\* Faulty variant of Prepare: the 'Others' folder is made in a dry run too.
PrepareAlways(f, d) ==
    LET mk == MakeDirs(f, Others) IN
    Result(mk.fs, mk.err,
           IF d THEN <<Line("dry_others_note", NoName, NoName, <<>>)>> ELSE <<>>,
           <<>>)

\* lines 147-151: the 'Others' folder is made up front unless dry_run
Prepare(f, d) ==
    IF ~d
    THEN LET mk == MakeDirs(f, Others) IN Result(mk.fs, mk.err, <<>>, <<>>)
    ELSE Result(f, "", <<Line("dry_others_note", NoName, NoName, <<>>)>>, <<>>)

\* lines 163-167, 174: a matched file in a dry run
DryMatch(f, n, cat) ==
    LET lines == <<Line("folder_created", NoName, cat, <<>>),
                   Line("dry_move", n, NoName, <<Directory, cat>>)>>
    IN  Result(f, "", lines, <<Act(f, n, cat, TRUE, lines)>>)

\* Faulty variant of RealMatch: a failed move is swallowed and the file is
\* skipped without a report.
RealMatchSwallow(f, n, cat) ==
    LET mk == MakeDirs(f, cat) IN
    IF mk.err # "" THEN Result(f, mk.err, <<>>, <<>>)
    ELSE LET mv == Move(mk.fs, n, cat) IN
         IF mv.err # "" THEN Result(mk.fs, "", <<>>, <<>>)
         ELSE LET lines == <<Line("moved", n, cat, <<Directory, cat>>)>>
              IN  Result(mv.fs, "", lines, <<Act(f, n, cat, TRUE, lines)>>)

\* lines 163, 168-174: a matched file in a real run
RealMatch(f, n, cat) ==
    LET mk == MakeDirs(f, cat) IN
    IF mk.err # "" THEN Result(f, mk.err, <<>>, <<>>)
    ELSE LET mv == Move(mk.fs, n, cat) IN
         IF mv.err # "" THEN Result(mk.fs, mv.err, <<>>, <<>>)
         ELSE LET lines == <<Line("moved", n, cat, <<Directory, cat>>)>>
              IN  Result(mv.fs, "", lines, <<Act(f, n, cat, TRUE, lines)>>)

\* lines 177-179: an unmatched file in a dry run
DryOthers(f, n) ==
    LET lines == <<Line("dry_move_others", n, NoName, <<Others>>)>>
    IN  Result(f, "", lines, <<Act(f, n, Others, FALSE, lines)>>)

\* lines 177, 180-182: an unmatched file in a real run
RealOthers(f, n) ==
    LET mv == Move(f, n, Others) IN
    IF mv.err # "" THEN Result(f, mv.err, <<>>, <<>>)
    ELSE LET lines == <<Line("unmatched", n, NoName, <<Directory, Others>>)>>
         IN  Result(mv.fs, "", lines, <<Act(f, n, Others, FALSE, lines)>>)

\* lines 157-182: the loop body for snapshot entry n
ProcessEntry(f, g, d, n) ==
    IF ~IsFile(f, n) THEN Result(f, "", <<>>, <<>>)
    ELSE IF g.t # "obj" THEN Result(f, "AttributeError", <<>>, <<>>)
    ELSE LET s == Scan(g.m, 1, Suffix(n)) IN
         CASE s.r = "TypeError" -> Result(f, "TypeError", <<>>, <<>>)
           [] s.r = "match" ->
                IF d THEN DryMatch(f, n, s.cat) ELSE RealMatch(f, n, s.cat)
           [] OTHER -> IF d THEN DryOthers(f, n) ELSE RealOthers(f, n)

\* every order in which directory.iterdir() may yield the entries S
RECURSIVE Orders(_)
Orders(S) ==
    IF S = {} THEN {<<>>}
    ELSE UNION {{<<x>> \o o : o \in Orders(S \ {x})} : x \in S}

\* list(directory.iterdir()), line 155
Listing(f) == Orders(DOMAIN f)

----------------------------------------------------------------------------
(* Initial states *)

Names == {a_pdf, notes, z_txt, Docs, Others}

\* what an entry of each name may be before the first call
Candidates(n) ==
    CASE n = a_pdf -> {FileNode(1), XLinkNode, FifoNode}
      [] n = notes -> {FileNode(2)}
      [] n = z_txt -> {LinkNode(<<a_pdf>>), LinkNode(<<Docs, a_pdf>>)}
      [] n = Docs -> {DirNode(a_pdf :> FileNode(5)),
                      DirNode(a_pdf :> LinkNode(<<notes>>)),
                      FileNode(3), LinkNode(<<Others>>)}
      [] n = Others -> {DirNode(Empty), DirNode(notes :> FileNode(6)),
                        FileNode(4)}

InitDirs ==
    UNION {{f \in [S -> UNION {Candidates(n) : n \in S}] :
               \A n \in S : f[n] \in Candidates(n)} :
           S \in {T \in SUBSET Names : Cardinality(T) <= MaxEntries}}

NoPrev == [some |-> FALSE, dry |-> FALSE, ok |-> FALSE, decisions |-> {},
           before |-> Empty]

\* the (file, folder) decisions in a history of acts
Decisions(as) == {<<as[k].n, as[k].c>> : k \in 1..Len(as)}

Init ==
    /\ fs \in InitDirs
    /\ cfg \in Configs
    /\ pc = "idle"
    /\ dry = FALSE
    /\ groups = JNone
    /\ snap = <<>>
    /\ i = 1
    /\ out = <<>>
    /\ err = ""
    /\ acts = <<>>
    /\ start = fs
    /\ prev = NoPrev
    /\ runs = 0

----------------------------------------------------------------------------
(* Actions *)

\* main calls file_organizer(path, d, config): lines 141-155, up to the
\* snapshot of the directory
Invoke(d) ==
    /\ pc \in {"idle", "done", "failed"}
    /\ runs < MaxRuns
    /\ runs' = runs + 1
    /\ prev' = IF runs = 0 THEN NoPrev
               ELSE [some |-> TRUE, dry |-> dry, ok |-> pc = "done",
                     decisions |-> Decisions(acts), before |-> start]
    /\ start' = fs
    /\ dry' = d
    /\ acts' = <<>>
    /\ i' = 1
    /\ UNCHANGED cfg
    /\ LET ld == load_config(cfg) IN
       IF ld.err # ""
       THEN /\ pc' = "failed"
            /\ err' = ld.err
            /\ groups' = JNone
            /\ snap' = <<>>
            /\ out' = <<>>
            /\ UNCHANGED fs
       ELSE LET pr == Prepare(fs, d) IN
            /\ groups' = ld.v
            /\ fs' = pr.fs
            /\ out' = pr.lines
            /\ err' = pr.err
            /\ IF pr.err # ""
               THEN pc' = "failed" /\ snap' = <<>>
               ELSE pc' = "scan" /\ snap' \in Listing(pr.fs)

\* one iteration of the for loop of line 155
Step ==
    /\ pc = "scan"
    /\ i <= Len(snap)
    /\ LET r == ProcessEntry(fs, groups, dry, snap[i]) IN
       /\ fs' = r.fs
       /\ out' = out \o r.lines
       /\ acts' = acts \o r.acts
       /\ err' = r.err
       /\ IF r.err # ""
          THEN pc' = "failed" /\ UNCHANGED i
          ELSE pc' = "scan" /\ i' = i + 1
    /\ UNCHANGED <<cfg, dry, groups, snap, start, prev, runs>>

\* the loop is exhausted: file_organizer returns
Return ==
    /\ pc = "scan"
    /\ i > Len(snap)
    /\ pc' = "done"
    /\ UNCHANGED <<fs, cfg, dry, groups, snap, i, out, err, acts, start, prev, runs>>

Next == (\E d \in BOOLEAN : Invoke(d)) \/ Step \/ Return

Spec == Init /\ [][Next]_vars

----------------------------------------------------------------------------
(* Vocabulary of the properties *)

Finished == pc \in {"done", "failed"}

\* the previous call was a run of the given mode from the state this call
\* started in
After(d) == prev.some /\ prev.dry = d

\* names of the regular files (not links to them) at the top level of f
RegularFiles(f) == {n \in DOMAIN f : f[n].k = "file"}

\* g is a mapping from category names to sequences of extensions
WellFormed(g) == g.t = "obj" /\ \A k \in 1..Len(g.m) : g.m[k][2].t = "arr"

\* the configuration file holds such a mapping
ShapeOK(c) == c.k = "json" /\ WellFormed(c.v)

\* positions of the categories whose extension set has sfx as a member
MemberCats(g, sfx) ==
    {k \in 1..Len(g.m) :
        g.m[k][2].t = "arr" /\ \E j \in 1..Len(g.m[k][2].a) : g.m[k][2].a[j] = sfx}

\* positions of the categories for which the test of line 162 succeeds
Hits(g, sfx) == {k \in 1..Len(g.m) : InExts(sfx, g.m[k][2]) = "yes"}

\* node is directory / folder / n
InFolder(f, folder, n, node) ==
    LET d == RealDir(f, folder, LinkDepth)
    IN  d # NoName /\ n \in DOMAIN f[d].ch /\ f[d].ch[n] = node

\* the file that was top-level entry n when the call began is now
\* directory / folder / n and no longer directory / n
Relocated(n, folder) ==
    /\ InFolder(fs, folder, n, start[n])
    /\ ~(n \in DOMAIN fs /\ fs[n] = start[n])

\* positions in a sequence of records whose field n is the name
About(seq, n) == {k \in 1..Len(seq) : seq[k].n = n}

\* where the regular file with identity id is in f: <<name>> at the top level,
\* <<folder, name>> inside a folder
Places(f, id) ==
    {<<n>> : n \in {x \in DOMAIN f : f[x].k = "file" /\ f[x].id = id}}
    \cup UNION {{<<d, n>> : n \in {x \in DOMAIN f[d].ch :
                                f[d].ch[x].k = "file" /\ f[d].ch[x].id = id}} :
                d \in {x \in DOMAIN f : f[x].k = "dir"}}

\* the decisions about regular files
RegularDecisions(ds) == {x \in ds : x[1] \in RegularFiles(start)}

----------------------------------------------------------------------------
(* C1 *)

\* C1: a dry run leaves the directory exactly as it found it, at every point
\* of the run and also when the run ends with an error: no folder is created
\* and no file is moved.
C1_DryRunTouchesNothing == (pc # "idle" /\ dry) => fs = start

\* a dry run that reported a file and then ended with an error, in a directory
\* where a real run would have had to create 'Others'
C1_Witness ==
    /\ dry /\ pc = "failed" /\ Len(acts) > 0
    /\ Others \notin DOMAIN fs

----------------------------------------------------------------------------
(* C2 *)

\* C2 as stated: a dry run and a real run from the same directory and
\* configuration make the same set of (file, category) decisions.
C2_SameDecisions ==
    (Finished /\ ~dry /\ After(TRUE) /\ prev.before = start)
        => Decisions(acts) = prev.decisions

\* C2 amended: a file both runs decide on gets the same folder from both;
\* when the dry run completes without an error, the real run's decisions on
\* regular files are among the dry run's (it has made fewer when it ended
\* with an error), and they are the same set when the real run completes
\* without an error too.
C2_DecisionsAgree ==
    (Finished /\ ~dry /\ After(TRUE) /\ prev.before = start)
        => /\ \A x \in Decisions(acts), y \in prev.decisions :
                 x[1] = y[1] => x[2] = y[2]
           /\ prev.ok
                 => RegularDecisions(Decisions(acts))
                        \subseteq RegularDecisions(prev.decisions)
           /\ (pc = "done" /\ prev.ok)
                 => RegularDecisions(Decisions(acts)) = RegularDecisions(prev.decisions)

\* both runs completed and the real one relocated at least two entries, a
\* regular file among them
C2_Witness ==
    /\ pc = "done" /\ ~dry /\ After(TRUE) /\ prev.ok /\ prev.before = start
    /\ Cardinality(Decisions(acts)) >= 2
    /\ RegularDecisions(Decisions(acts)) # {}

----------------------------------------------------------------------------
(* C3 *)

\* what C3 says of regular file n, whose extension is in exactly one set
C3_About(n) ==
    LET ks == MemberCats(groups, Suffix(n)) IN
    Cardinality(ks) = 1 =>
        LET cat == groups.m[CHOOSE k \in ks : TRUE][1] IN
        /\ Relocated(n, cat)
        /\ Cardinality(About(acts, n)) = 1
        /\ \A k \in About(acts, n) : acts[k].c = cat /\ acts[k].matched
        /\ Cardinality(About(out, n)) = 1
        /\ \A k \in About(out, n) : out[k].c = cat

----------------------------------------------------------------------------
(* C4 *)

\* what C4 says of regular file n, whose extension is in no set
C4_About(n) == MemberCats(groups, Suffix(n)) = {} => Relocated(n, Others)

\* a file without extension goes to a category only when that category's set
\* holds the empty string
C4_EmptySuffix ==
    \A k \in 1..Len(acts) :
        (Suffix(acts[k].n) = <<>> /\ acts[k].matched)
            => \E j \in MemberCats(groups, <<>>) : groups.m[j][1] = acts[k].c

----------------------------------------------------------------------------
(* C5 *)

\* C5: only top-level regular files are classified and relocated; an entry of
\* any other type, a symbolic link to a regular file included, has no action
\* recorded for it and stays where it is.
C5_OnlyRegularFiles ==
    \A n \in DOMAIN start :
        start[n].k # "file"
            => /\ About(acts, n) = {}
               /\ n \in DOMAIN fs /\ fs[n].k = start[n].k

----------------------------------------------------------------------------
(* C6 *)

\* C6: when the configuration file is absent or does not hold a mapping from
\* category names to sequences of extensions, the call fails, and nothing in
\* the directory has been created or moved when it does.
C6_BadConfigFailsBeforeAnyEffect ==
    (pc # "idle" /\ ~ShapeOK(cfg)) => (pc # "done" /\ fs = start)

----------------------------------------------------------------------------
(* C7 *)

\* C7: the lines printed for every action show the resolved destination
\* path, and report the folder as created exactly when it did not exist
\* before the action.
C7_ReportsPathAndCreation ==
    \A k \in 1..Len(acts) :
        LET a == acts[k] IN
        /\ \E j \in 1..Len(a.lines) :
              a.lines[j].n = a.n /\ a.lines[j].p = <<Directory, a.c>>
        /\ (\E j \in 1..Len(a.lines) :
              a.lines[j].t = "folder_created" /\ a.lines[j].c = a.c)
           <=> ~a.existed

----------------------------------------------------------------------------
(* C8 *)

\* C8: a call that follows a completed real run with the same configuration
\* neither reports a file that run relocated nor changes the directory tree.
C8_SecondRunChangesNothing ==
    (pc # "idle" /\ After(FALSE) /\ prev.ok)
        => /\ \A k \in 1..Len(acts) : \A x \in prev.decisions : acts[k].n # x[1]
           /\ fs = start

----------------------------------------------------------------------------
(* C9 *)

\* C9: a file is assigned to the first category, in declaration order, whose
\* test succeeds, and to 'Others' when none does; there is one action per
\* file; and no category after the first match is tested, so a test that
\* raises is that of a category before every matching one.
C9_FirstMatchWins ==
    /\ \A k \in 1..Len(acts) :
          LET a == acts[k]
              hits == Hits(groups, Suffix(a.n)) IN
          /\ a.matched <=> hits # {}
          /\ a.matched =>
                \E j \in hits : (\A h \in hits : j <= h) /\ a.c = groups.m[j][1]
          /\ ~a.matched => a.c = Others
          /\ About(acts, a.n) = {k}
    /\ (pc = "failed" /\ err = "TypeError")
          => \E j \in 1..Len(groups.m) :
                /\ InExts(Suffix(snap[i]), groups.m[j][2]) = "TypeError"
                /\ \A h \in Hits(groups, Suffix(snap[i])) : j < h

\* a file whose extension two categories list has been acted on
C9_Witness ==
    \E k \in 1..Len(acts) :
        /\ acts[k].matched
        /\ Cardinality(Hits(groups, Suffix(acts[k].n))) >= 2

----------------------------------------------------------------------------
(* C10 *)

\* C10: at every point of a call, also after it has ended with an error,
\* every regular file that was at the top level when it began is at exactly
\* one place, its own or directly inside one folder, under its own name;
\* every regular file that was inside a folder is still there unchanged; and
\* when a move fails because the name is taken in the destination folder, the
\* source is still in place.
C10_NoFileLostOrOverwritten ==
    /\ \A n \in RegularFiles(start) :
          /\ Cardinality(Places(fs, start[n].id)) = 1
          /\ \A pl \in Places(fs, start[n].id) : pl[Len(pl)] = n
    /\ \A d \in DOMAIN start :
          start[d].k = "dir" =>
              \A n \in DOMAIN start[d].ch :
                  start[d].ch[n].k = "file" =>
                      /\ d \in DOMAIN fs /\ fs[d].k = "dir"
                      /\ n \in DOMAIN fs[d].ch /\ fs[d].ch[n] = start[d].ch[n]
    /\ (pc = "failed" /\ err = "shutil.Error")
          => snap[i] \in DOMAIN fs /\ fs[snap[i]] = start[snap[i]]

\* a real run that relocated a file and then failed to move another because
\* its name was taken in the destination folder
C10_Witness ==
    /\ ~dry /\ pc = "failed" /\ err = "shutil.Error" /\ Len(acts) > 0
    /\ snap[i] \in RegularFiles(start)

====
